---- MODULE Spec2Model ----
(***************************************************************************)
(* git-re: rebase-edit a past commit.  Model of src/git_re.py: main, the   *)
(* three flows (_edit_flow, _done_flow, _abort_flow), _cleanup_stash, the  *)
(* Git wrapper and the Log wrapper, run against an abstract repository     *)
(* (rebase-in-progress marker, staged index, stash stack, commit at HEAD). *)
(***************************************************************************)
EXTENDS Integers, Sequences, FiniteSets, TLC

VARIABLES
    args,      \* Args namespace of the running (or last) invocation
    pc,        \* position of the program
    stack,     \* return positions of the calls in progress
    calls,     \* Git methods called by this invocation, in order
    out,       \* messages printed by this invocation, in order
    flows,     \* flow functions entered by this invocation, in order
    doneRet,   \* value returned by _done_flow
    editRet,   \* value returned by _edit_flow
    abortRet,  \* value returned by _abort_flow
    ret,       \* value returned by main (the exit code)
    stashId,   \* local stash_id of _cleanup_stash
    shelf,     \* repository: stash stack, index 1 is stash@{0}
    rebasing,  \* repository: a rebase is in progress
    staged,    \* repository: the index holds staged changes
    head,      \* repository: the commit at HEAD, as "git commit --amend"
               \* rewrites it
    entry,     \* the repository as the invocation found it
    leftover   \* history: the last invocation was a live Start-Edit with
               \* shelving whose pop_stash failed, and nothing has touched
               \* the repository since it exited

vars == <<args, pc, stack, calls, out, flows, doneRet, editRet, abortRet,
          ret, stashId, shelf, rebasing, staged, head, entry, leftover>>

repo == <<shelf, rebasing, staged, head>>

----------------------------------------------------------------------------
(* Bounds *)

MaxShelf == 3

\* Commits at HEAD are numbered 0..MaxHead; an amend gives the next one.
MaxHead == 1

----------------------------------------------------------------------------
(* Values *)

NoRet == -1

None == "None"
FAILED == "FAILED"
SUCCESS == "SUCCESS"
DRY_RUN == "DRY_RUN"

Marker == "git-re--stash"

Commits == {None, "abc123"}

ArgsSet == [commit : Commits, done : BOOLEAN, abort : BOOLEAN,
            stash : BOOLEAN, verbose : BOOLEAN, dry_run : BOOLEAN]

\* Messages of entries that other stash users push.
UserMessages == {<<"WIP">>, <<"backup", Marker, "copy">>}

StashRefs == <<"stash@{0}", "stash@{1}", "stash@{2}", "stash@{3}",
               "stash@{4}", "stash@{5}", "stash@{6}", "stash@{7}">>

NoStashId == <<>>

----------------------------------------------------------------------------
(* Log *)

\* Log.__init__ without "or args.dry_run".
LogVerboseOnly(a) == a.verbose

LogVerbose(a) == a.verbose \/ a.dry_run

LogInfo(o, m) == Append(o, [lvl |-> "info", msg |-> <<m>>])

LogError(o, m) == Append(o, [lvl |-> "error", msg |-> <<m>>])

LogDebug(o, a, m) ==
    IF LogVerbose(a) THEN Append(o, [lvl |-> "debug", msg |-> m]) ELSE o

RECURSIVE CountLvl(_, _)
CountLvl(o, l) ==
    IF o = <<>> THEN 0
    ELSE (IF Head(o).lvl = l THEN 1 ELSE 0) + CountLvl(Tail(o), l)

\* The exit code of the git process: none in dry-run, where none is run.
RanCode(a, rc) == IF a.dry_run THEN NoRet ELSE rc

\* A Git method was called with the arguments arg, its git process exited
\* with code and the method gave the result res.
Called(c, name, arg, code, res) ==
    Append(c, [op |-> name, arg |-> arg, code |-> code, res |-> res])

Ops(c) == [i \in 1..Len(c) |-> c[i].op]

RECURSIVE CountOf(_, _)
CountOf(s, x) ==
    IF s = <<>> THEN 0
    ELSE (IF Head(s) = x THEN 1 ELSE 0) + CountOf(Tail(s), x)

----------------------------------------------------------------------------
(* Git wrapper *)

\* The prefix without its dry-run case.
PrefixLiveOnly(a) == "> "

Prefix(a) == IF a.dry_run THEN "# " ELSE "> "

\* The debug line of _exec_git.
ExecLog(o, a, cmd) == LogDebug(o, a, <<Prefix(a), "git">> \o cmd)

\* _exec_git comparing the exit code with 0 whatever expect_exitcode is.
ExecGitExpectZero(a, rc, expect) ==
    IF a.dry_run THEN None
    ELSE IF rc = 0 THEN SUCCESS ELSE FAILED

\* The value of _exec_git called with expect_exitcode, for exit code rc.
ExecGit(a, rc, expect) ==
    IF a.dry_run THEN None
    ELSE IF rc = expect THEN SUCCESS ELSE FAILED

\* stdout of "git stash list": one line per entry, "<ref>: <message>".
StashListOut(sh) ==
    [i \in 1..Len(sh) |-> <<StashRefs[i], ":">> \o sh[i]]

LineHasMarker(line) == \E k \in 1..Len(line) : line[k] = Marker

\* line.split(":", 1)[0]
SplitHead(line) ==
    IF \E k \in 1..Len(line) : line[k] = ":"
    THEN LET k == CHOOSE k \in 1..Len(line) :
                      /\ line[k] = ":"
                      /\ \A j \in 1..(k - 1) : line[j] # ":"
         IN  SubSeq(line, 1, k - 1)
    ELSE line

\* stash_id giving the ref of the first line instead of the matching line.
StashIdOfFirstLine(a, lines) ==
    IF a.dry_run THEN NoStashId
    ELSE IF \E i \in 1..Len(lines) : LineHasMarker(lines[i])
         THEN SplitHead(lines[1])
         ELSE NoStashId

\* Git.stash_id on the given stdout lines (dry-run: no result at all).
StashIdOf(a, lines) ==
    IF a.dry_run THEN NoStashId
    ELSE IF \E i \in 1..Len(lines) : LineHasMarker(lines[i])
         THEN LET i == CHOOSE i \in 1..Len(lines) :
                           /\ LineHasMarker(lines[i])
                           /\ \A j \in 1..(i - 1) : ~LineHasMarker(lines[j])
              IN  SplitHead(lines[i])
         ELSE NoStashId

----------------------------------------------------------------------------
(* Repository: what the git commands do *)

\* Position in the stack that a stash ref names, 0 if none.
RefIndex(sh, id) ==
    IF \E i \in 1..Len(sh) : id = <<StashRefs[i]>>
    THEN CHOOSE i \in 1..Len(sh) : id = <<StashRefs[i]>>
    ELSE 0

RemoveAt(sh, i) == SubSeq(sh, 1, i - 1) \o SubSeq(sh, i + 1, Len(sh))


\* Exit codes git can give each command in the given repository state.
AbortExit(rb) == IF rb THEN {0, 1} ELSE {128}

ContinueExit(rb) == IF rb THEN {0, 1} ELSE {128}

AmendExit == {0, 1}

RebaseExit(commit, rb) ==
    IF commit = None \/ rb THEN {128} ELSE {0, 1}

HasStagedExit(st) == IF st THEN {1} ELSE {0}

StashPushExit(sh) == IF Len(sh) < MaxShelf THEN {0, 1} ELSE {1}

StashPopExit(sh) == IF sh = <<>> THEN {1} ELSE {0, 1}

StashDropExit(sh, id) == IF RefIndex(sh, id) = 0 THEN {1} ELSE {0, 1}

\* The entry "git stash push -m git-re--stash" creates.
MarkerEntry == <<"On master", ":", Marker>>

UserEntries == {<<"WIP on master", ":">> \o m : m \in UserMessages}

PushStash(sh, st) == IF st THEN <<MarkerEntry>> \o sh ELSE sh

PopStash(sh) == Tail(sh)

\* The commit "git commit --amend" puts at HEAD in place of h.
Amended(h) == (h + 1) % (MaxHead + 1)

DropStash(sh, id) == RemoveAt(sh, RefIndex(sh, id))

----------------------------------------------------------------------------
(* Program *)

Init ==
    /\ args = [commit |-> None, done |-> FALSE, abort |-> FALSE,
               stash |-> FALSE, verbose |-> FALSE, dry_run |-> FALSE]
    /\ pc = "idle"
    /\ stack = <<>>
    /\ calls = <<>>
    /\ out = <<>>
    /\ flows = <<>>
    /\ doneRet = NoRet
    /\ editRet = NoRet
    /\ abortRet = NoRet
    /\ ret = NoRet
    /\ stashId = NoStashId
    /\ shelf = <<>>
    /\ rebasing = FALSE
    /\ staged = FALSE
    /\ head = 0
    /\ entry = <<<<>>, FALSE, FALSE, 0>>
    /\ leftover = FALSE

\* The program is started with some command line.
Invoke ==
    /\ pc = "idle"
    /\ \E a \in ArgsSet : args' = a
    /\ pc' = "main"
    /\ stack' = <<>>
    /\ calls' = <<>>
    /\ out' = <<>>
    /\ flows' = <<>>
    /\ doneRet' = NoRet
    /\ editRet' = NoRet
    /\ abortRet' = NoRet
    /\ ret' = NoRet
    /\ stashId' = NoStashId
    /\ entry' = repo
    /\ UNCHANGED <<leftover, repo>>

\* Between invocations the user stages changes.
UserStage ==
    /\ pc = "idle"
    /\ ~staged
    /\ staged' = TRUE
    /\ leftover' = FALSE
    /\ UNCHANGED <<head, entry, args, pc, stack, calls, out, flows, doneRet, editRet,
                   abortRet, ret, stashId, shelf, rebasing>>

\* Between invocations the user stashes work of their own.
UserStash ==
    /\ pc = "idle"
    /\ Len(shelf) < MaxShelf
    /\ \E e \in UserEntries : shelf' = <<e>> \o shelf
    /\ leftover' = FALSE
    /\ UNCHANGED <<head, entry, args, pc, stack, calls, out, flows, doneRet, editRet,
                   abortRet, ret, stashId, rebasing, staged>>

\* Between invocations the user pops the top of the stash.
UserPop ==
    /\ pc = "idle"
    /\ shelf # <<>>
    /\ shelf' = Tail(shelf)
    /\ leftover' = FALSE
    /\ UNCHANGED <<head, entry, args, pc, stack, calls, out, flows, doneRet, editRet,
                   abortRet, ret, stashId, rebasing, staged>>

MainError(m) ==
    /\ out' = LogError(out, m)
    /\ ret' = 1
    /\ pc' = "exit"
    /\ UNCHANGED <<stack, flows>>

MainEnter(flow) ==
    /\ pc' = flow
    /\ stack' = <<"main_return">>
    /\ flows' = Append(flows, flow)
    /\ UNCHANGED <<out, ret>>

NoError == ""

\* The chain without its "--done with --stash" branch.
MainUsageErrorNoDoneStash(a) ==
    IF a.abort
    THEN IF a.commit # None
         THEN "Error: --abort cannot be used with a commit argument"
         ELSE IF a.stash
         THEN "Error: --abort cannot be used with --stash"
         ELSE IF a.done
         THEN "Error: --abort cannot be used with --done"
         ELSE NoError
    ELSE IF a.done
    THEN IF a.commit # None
         THEN "Error: --done cannot be used with a commit argument"
         ELSE NoError
    ELSE NoError

\* The if/elif chain of main: the usage error of the options, if any.
MainUsageError(a) ==
    IF a.abort
    THEN IF a.commit # None
         THEN "Error: --abort cannot be used with a commit argument"
         ELSE IF a.stash
         THEN "Error: --abort cannot be used with --stash"
         ELSE IF a.done
         THEN "Error: --abort cannot be used with --done"
         ELSE NoError
    ELSE IF a.done
    THEN IF a.commit # None
         THEN "Error: --done cannot be used with a commit argument"
         ELSE IF a.stash
         THEN "Error: --done cannot be used with --stash"
         ELSE NoError
    ELSE NoError

\* The dispatch with --done falling into the else branch.
MainFlowNoDoneBranch(a) ==
    IF a.abort THEN "abort_flow"
    ELSE "edit_flow"

\* The flow main dispatches to when the options are accepted.
MainFlow(a) ==
    IF a.abort THEN "abort_flow"
    ELSE IF a.done THEN "done_flow"
    ELSE "edit_flow"

\* main: validation of the options and dispatch to one flow.
Main ==
    /\ pc = "main"
    /\ IF MainUsageError(args) # NoError
       THEN MainError(MainUsageError(args))
       ELSE MainEnter(MainFlow(args))
    /\ UNCHANGED <<leftover, entry, args, calls, doneRet, editRet, abortRet, stashId, repo>>

FlowRet ==
    IF args.abort THEN abortRet ELSE IF args.done THEN doneRet ELSE editRet

\* main: "return _xxx_flow(...)".
MainReturn ==
    /\ pc = "main_return"
    /\ ret' = FlowRet
    /\ pc' = "exit"
    /\ UNCHANGED <<leftover, entry, args, stack, calls, out, flows, doneRet, editRet,
                   abortRet, stashId, repo>>


\* The process has exited with the code ret: nothing of it remains but what
\* it did to the repository.
Exit ==
    /\ pc = "exit"
    /\ pc' = "idle"
    /\ leftover' = /\ ~args.abort /\ ~args.done /\ args.stash /\ ~args.dry_run
                   /\ \E i \in 1..Len(calls) :
                          calls[i].op = "pop_stash" /\ calls[i].res = FAILED
    /\ args' = [commit |-> None, done |-> FALSE, abort |-> FALSE,
                stash |-> FALSE, verbose |-> FALSE, dry_run |-> FALSE]
    /\ stack' = <<>>
    /\ calls' = <<>>
    /\ out' = <<>>
    /\ flows' = <<>>
    /\ doneRet' = NoRet
    /\ editRet' = NoRet
    /\ abortRet' = NoRet
    /\ ret' = NoRet
    /\ stashId' = NoStashId
    /\ entry' = <<<<>>, FALSE, FALSE, 0>>
    /\ UNCHANGED repo

\* "return code" of the function whose frame is on top of the stack.
Return ==
    /\ pc' = Head(stack)
    /\ stack' = Tail(stack)

----------------------------------------------------------------------------
(* The tests the flows make on the result of each Git call *)

DropFailedInverted(r) == r = SUCCESS

DropFailed(r) == r = FAILED

AmendFailedInverted(r) == r = SUCCESS

AmendFailed(r) == r = FAILED

ContinueFailedInverted(r) == r = SUCCESS

ContinueFailed(r) == r = FAILED

AbortFailedInverted(r) == r = SUCCESS

AbortFailed(r) == r = FAILED

HasStagedFailedInverted(r) == r = SUCCESS

HasStagedFailed(r) == r = FAILED

StashStagedFailedInverted(r) == r = SUCCESS

StashStagedFailed(r) == r = FAILED

RebaseEditFailedInverted(r) == r = SUCCESS

RebaseEditFailed(r) == r = FAILED

RecoverPopFailedInverted(r) == r = SUCCESS

RecoverPopFailed(r) == r = FAILED

PopFailedInverted(r) == r = SUCCESS

PopFailed(r) == r = FAILED

----------------------------------------------------------------------------
(* _cleanup_stash *)

\* stash_id = git.stash_id(); if stash_id is not None: log.debug(...)
CleanupStashId ==
    /\ pc = "cleanup_stash"
    /\ LET id == StashIdOf(args, StashListOut(shelf))
           o1 == ExecLog(out, args, <<"stash", "list">>)
       IN  /\ calls' = Called(calls, "stash_id", <<>>, RanCode(args, 0), id)
           /\ stashId' = id
           /\ IF id # NoStashId
              THEN /\ out' = LogDebug(o1, args, <<"Removing leftover stash entry...">>)
                   /\ pc' = "cleanup_drop"
                   /\ stack' = stack
              ELSE /\ out' = o1
                   /\ Return
    /\ UNCHANGED <<leftover, entry, args, flows, doneRet, editRet, abortRet, ret, repo>>

\* if git.drop_stash(stash_id) == FAILED: log.error("Warning: ...")
CleanupDrop ==
    /\ pc = "cleanup_drop"
    /\ \E rc \in StashDropExit(shelf, stashId) :
         LET r == ExecGit(args, rc, 0)
             o1 == ExecLog(out, args, <<"stash", "drop">> \o stashId)
         IN  /\ calls' = Called(calls, "drop_stash", stashId, RanCode(args, rc), r)
             /\ shelf' = IF ~args.dry_run /\ rc = 0
                         THEN DropStash(shelf, stashId) ELSE shelf
             /\ out' = IF DropFailed(r)
                       THEN LogError(o1, "Warning: Failed to remove leftover stash entry.")
                       ELSE o1
    /\ Return
    /\ UNCHANGED <<leftover, head, entry, args, flows, doneRet, editRet, abortRet, ret, stashId,
                   rebasing, staged>>

----------------------------------------------------------------------------
(* _done_flow *)

\* _done_flow without its call of _cleanup_stash.
DoneCleanupSkipped(st) == [pc |-> "done_success", stack |-> st]

\* "_cleanup_stash(git, log)" of _done_flow: the call and where it returns.
DoneCleanupCall(st) ==
    [pc |-> "cleanup_stash", stack |-> <<"done_success">> \o st]

DoneAmend ==
    /\ pc = "done_flow"
    /\ \E rc \in AmendExit :
         LET r == ExecGit(args, rc, 0)
             o1 == ExecLog(out, args, <<"commit", "--amend", "--no-edit">>)
         IN  /\ calls' = Called(calls, "amend_commit", <<>>, RanCode(args, rc), r)
             /\ staged' = IF ~args.dry_run /\ rc = 0 THEN FALSE ELSE staged
             /\ head' = IF ~args.dry_run /\ rc = 0 THEN Amended(head) ELSE head
             /\ IF AmendFailed(r)
                THEN /\ out' = LogError(o1, "Error: Failed to amend the current commit.")
                     /\ doneRet' = 1
                     /\ Return
                ELSE /\ out' = o1
                     /\ doneRet' = doneRet
                     /\ pc' = "done_continue"
                     /\ stack' = stack
    /\ UNCHANGED <<leftover, entry, args, flows, editRet, abortRet, ret, stashId,
                   shelf, rebasing>>

DoneContinue ==
    /\ pc = "done_continue"
    /\ \E rc \in ContinueExit(rebasing), more \in BOOLEAN :
         LET r == ExecGit(args, rc, 0)
             o1 == ExecLog(out, args, <<"rebase", "--continue">>)
         IN  /\ calls' = Called(calls, "continue_rebase", <<>>, RanCode(args, rc), r)
             /\ rebasing' = IF ~args.dry_run /\ rc = 0 THEN more ELSE rebasing
             /\ IF ContinueFailed(r)
                THEN /\ out' = LogError(LogError(LogError(o1,
                                 "Error: Failed to finish rebase."),
                                 "Error: + Fix any conflicts, then run 'git re --done'."),
                                 "Error: + To cancel the rebase, run 'git re --abort'.")
                     /\ doneRet' = 1
                     /\ Return
                ELSE /\ out' = o1
                     /\ doneRet' = doneRet
                     /\ pc' = DoneCleanupCall(stack).pc
                     /\ stack' = DoneCleanupCall(stack).stack
    /\ UNCHANGED <<leftover, head, entry, args, flows, editRet, abortRet, ret, stashId, shelf, staged>>

DoneSuccess ==
    /\ pc = "done_success"
    /\ out' = LogInfo(out, "Successfully amended commit and continued rebase.")
    /\ doneRet' = 0
    /\ Return
    /\ UNCHANGED <<leftover, entry, args, calls, flows, editRet, abortRet, ret, stashId, repo>>

----------------------------------------------------------------------------
(* _abort_flow *)

\* _abort_flow without its call of _cleanup_stash.
AbortCleanupSkipped(st) == [pc |-> "abort_success", stack |-> st]

\* "_cleanup_stash(git, log)" of _abort_flow: the call and where it returns.
AbortCleanupCall(st) ==
    [pc |-> "cleanup_stash", stack |-> <<"abort_success">> \o st]

AbortRebase ==
    /\ pc = "abort_flow"
    /\ \E rc \in AbortExit(rebasing) :
         LET r == ExecGit(args, rc, 0)
             o1 == ExecLog(out, args, <<"rebase", "--abort">>)
         IN  /\ calls' = Called(calls, "abort_rebase", <<>>, RanCode(args, rc), r)
             /\ rebasing' = IF ~args.dry_run /\ rc = 0 THEN FALSE ELSE rebasing
             /\ IF AbortFailed(r)
                THEN /\ out' = LogError(o1, "Error: Failed to abort rebase.")
                     /\ abortRet' = 1
                     /\ Return
                ELSE /\ out' = o1
                     /\ abortRet' = abortRet
                     /\ pc' = AbortCleanupCall(stack).pc
                     /\ stack' = AbortCleanupCall(stack).stack
    /\ UNCHANGED <<leftover, head, entry, args, flows, doneRet, editRet, ret, stashId, shelf, staged>>

AbortSuccess ==
    /\ pc = "abort_success"
    /\ out' = LogInfo(out, "Successfully aborted rebase.")
    /\ abortRet' = 0
    /\ Return
    /\ UNCHANGED <<leftover, entry, args, calls, flows, doneRet, editRet, ret, stashId, repo>>


----------------------------------------------------------------------------
(* _edit_flow *)

\* if args.stash: if git.has_staged() == FAILED: ...
EditHasStaged ==
    /\ pc = "edit_flow"
    /\ args.stash
    /\ \E rc \in HasStagedExit(staged) :
         LET r == ExecGit(args, rc, 1)
             o1 == ExecLog(out, args, <<"diff", "--cached", "--quiet">>)
         IN  /\ calls' = Called(calls, "has_staged", <<>>, RanCode(args, rc), r)
             /\ IF HasStagedFailed(r)
                THEN /\ out' = LogError(o1,
                         "Error: No staged files. Stage your changes with 'git add' before using --stash.")
                     /\ editRet' = 1
                     /\ Return
                ELSE /\ out' = o1
                     /\ editRet' = editRet
                     /\ pc' = "edit_stash_staged"
                     /\ stack' = stack
    /\ UNCHANGED <<leftover, entry, args, flows, doneRet, abortRet, ret, stashId, repo>>

\* if git.stash_staged() == FAILED: ...
EditStashStaged ==
    /\ pc = "edit_stash_staged"
    /\ \E rc \in StashPushExit(shelf) :
         LET r == ExecGit(args, rc, 0)
             o1 == ExecLog(out, args,
                     <<"stash", "push", "--keep-index", "-m", Marker>>)
         IN  /\ calls' = Called(calls, "stash_staged", <<>>, RanCode(args, rc), r)
             /\ shelf' = IF ~args.dry_run /\ rc = 0
                         THEN PushStash(shelf, staged) ELSE shelf
             /\ IF StashStagedFailed(r)
                THEN /\ out' = LogError(o1, "Error: Failed to stash staged changes.")
                     /\ editRet' = 1
                     /\ Return
                ELSE /\ out' = o1
                     /\ editRet' = editRet
                     /\ pc' = "edit_rebase"
                     /\ stack' = stack
    /\ UNCHANGED <<leftover, head, entry, args, flows, doneRet, abortRet, ret, stashId, rebasing, staged>>

\* if git.rebase_edit(args.commit) == FAILED: ...
EditRebase ==
    /\ \/ pc = "edit_rebase"
       \/ pc = "edit_flow" /\ ~args.stash
    /\ \E rc \in RebaseExit(args.commit, rebasing), stopped \in BOOLEAN :
         LET r == ExecGit(args, rc, 0)
             o1 == ExecLog(out, args,
                     <<"-c", "sequence.editor", "rebase", "-i", args.commit, "^">>)
         IN  /\ calls' = Called(calls, "rebase_edit", <<args.commit>>, RanCode(args, rc), r)
             /\ rebasing' = IF args.dry_run \/ rc = 128 THEN rebasing
                            ELSE IF rc = 0 THEN TRUE ELSE stopped
             /\ IF RebaseEditFailed(r)
                THEN LET o2 == LogError(o1, "Error: Failed to start interactive rebase.")
                     IN  IF args.stash
                         THEN /\ out' = LogDebug(o2, args, <<"Restoring stash...">>)
                              /\ editRet' = editRet
                              /\ pc' = "edit_recover"
                              /\ stack' = stack
                         ELSE /\ out' = o2
                              /\ editRet' = 1
                              /\ Return
                ELSE IF args.stash
                     THEN /\ out' = o1
                          /\ editRet' = editRet
                          /\ pc' = "edit_pop"
                          /\ stack' = stack
                     ELSE /\ out' = LogInfo(o1,
                                "Rebase-editing. Stage your changes, then run 'git re --done'.")
                          /\ editRet' = 0
                          /\ Return
    /\ UNCHANGED <<leftover, head, entry, args, flows, doneRet, abortRet, ret, stashId, shelf, staged>>

\* The recovery branch without its "return 1": control falls through to the
\* pop of the success path.
EditAfterRecoverFallsThrough(st) == [pc |-> "edit_pop", stack |-> st]

\* "return 1" that ends the recovery branch: back to the caller.
EditAfterRecover(st) == [pc |-> Head(st), stack |-> Tail(st)]

\* rebase failed: if git.pop_stash() == FAILED: ...; return 1
EditRecoverPop ==
    /\ pc = "edit_recover"
    /\ \E rc \in StashPopExit(shelf) :
         LET r == ExecGit(args, rc, 0)
             o1 == ExecLog(out, args, <<"stash", "pop">>)
         IN  /\ calls' = Called(calls, "pop_stash", <<>>, RanCode(args, rc), r)
             /\ shelf' = IF ~args.dry_run /\ rc = 0 THEN PopStash(shelf) ELSE shelf
             /\ out' = IF RecoverPopFailed(r)
                       THEN LogError(LogError(o1,
                              "Error: + Failed to restore stash after rebase failure."),
                              "Error: + To recover your stashed changes, check 'git stash list'.")
                       ELSE o1
    /\ editRet' = 1
    /\ pc' = EditAfterRecover(stack).pc
    /\ stack' = EditAfterRecover(stack).stack
    /\ UNCHANGED <<leftover, head, entry, args, flows, doneRet, abortRet, ret, stashId, rebasing, staged>>

\* rebase started: if git.pop_stash() == FAILED: ...; return _done_flow(log, git)
EditPop ==
    /\ pc = "edit_pop"
    /\ \E rc \in StashPopExit(shelf) :
         LET r == ExecGit(args, rc, 0)
             o1 == ExecLog(out, args, <<"stash", "pop">>)
         IN  /\ calls' = Called(calls, "pop_stash", <<>>, RanCode(args, rc), r)
             /\ shelf' = IF ~args.dry_run /\ rc = 0 THEN PopStash(shelf) ELSE shelf
             /\ IF PopFailed(r)
                THEN /\ out' = LogError(LogError(LogError(o1,
                                 "Error: Failed to apply stash to commit. The changes are saved in the stash."),
                                 "Error: + Fix any conflicts, then run 'git re --done'."),
                                 "Error: + To cancel the rebase, run 'git re --abort'.")
                     /\ editRet' = 1
                     /\ Return
                     /\ flows' = flows
                ELSE /\ out' = o1
                     /\ editRet' = editRet
                     /\ pc' = "done_flow"
                     /\ stack' = <<"edit_return_done">> \o stack
                     /\ flows' = Append(flows, "done_flow")
    /\ UNCHANGED <<leftover, head, entry, args, doneRet, abortRet, ret, stashId, rebasing, staged>>

\* _done_flow is called and its value dropped: "return 0" follows.
EditDoneRetDropped == IF doneRet = NoRet THEN NoRet ELSE 0

EditDoneRet == doneRet

\* "return _done_flow(log, git)": the value of _done_flow is returned.
EditReturnDone ==
    /\ pc = "edit_return_done"
    /\ editRet' = EditDoneRet
    /\ Return
    /\ UNCHANGED <<leftover, entry, args, calls, out, flows, doneRet, abortRet, ret, stashId, repo>>

----------------------------------------------------------------------------

Next ==
    \/ Invoke
    \/ UserStage
    \/ UserStash
    \/ UserPop
    \/ Main
    \/ MainReturn
    \/ Exit
    \/ CleanupStashId
    \/ CleanupDrop
    \/ DoneAmend
    \/ DoneContinue
    \/ DoneSuccess
    \/ AbortRebase
    \/ AbortSuccess
    \/ EditHasStaged
    \/ EditStashStaged
    \/ EditRebase
    \/ EditRecoverPop
    \/ EditPop
    \/ EditReturnDone

Spec == Init /\ [][Next]_vars

----------------------------------------------------------------------------
(* _cleanup_stash called twice in a row, on any stash stack *)

ShelfEntries == UserEntries \cup {MarkerEntry}

Shelves == UNION {[1..n -> ShelfEntries] : n \in 0..MaxShelf}

InitCleanup ==
    /\ args \in {a \in ArgsSet : a.abort /\ ~a.done /\ ~a.stash /\ a.commit = None}
    /\ pc = "cleanup_stash"
    /\ stack = <<"cleanup_stash", "exit">>
    /\ calls = <<>>
    /\ out = <<>>
    /\ flows = <<>>
    /\ doneRet = NoRet
    /\ editRet = NoRet
    /\ abortRet = NoRet
    /\ ret = NoRet
    /\ stashId = NoStashId
    /\ shelf \in Shelves
    /\ rebasing = FALSE
    /\ staged = FALSE
    /\ head = 0
    /\ entry = <<shelf, rebasing, staged, head>>
    /\ leftover = FALSE

NextCleanup ==
    \/ CleanupStashId
    \/ CleanupDrop

SpecCleanup == InitCleanup /\ [][NextCleanup]_vars

TypeOK ==
    /\ args \in ArgsSet
    /\ ret \in {NoRet, 0, 1}
    /\ Len(shelf) <= MaxShelf
    /\ rebasing \in BOOLEAN
    /\ staged \in BOOLEAN
    /\ head \in 0..MaxHead
    /\ leftover \in BOOLEAN


----------------------------------------------------------------------------
(* Properties *)

Finished == pc = "exit"

Errors == CountLvl(out, "error")

Infos == CountLvl(out, "info")

Issued(name) == \E i \in 1..Len(calls) : calls[i].op = name

Got(name, res) ==
    \E i \in 1..Len(calls) : calls[i].op = name /\ calls[i].res = res

NCalls(name) == CountOf(Ops(calls), name)

\* The option combinations that conflict.
Conflicting(a) ==
    \/ a.abort /\ a.commit # None
    \/ a.abort /\ a.stash
    \/ a.abort /\ a.done
    \/ a.done /\ a.commit # None
    \/ a.done /\ a.stash

EditWithStash == ~args.abort /\ ~args.done /\ args.stash

\* C1: for every conflicting option combination main returns 1 with exactly
\* one error message, enters no flow and calls no Git method (so nothing of
\* the repository is touched by the invocation).
C1_ConflictRejected ==
    Conflicting(args) =>
        /\ pc \in {"main", "exit", "idle"}
        /\ calls = <<>>
        /\ pc # "idle" => repo = entry
        /\ flows = <<>>
        /\ Finished => ret = 1 /\ Errors = 1 /\ Len(out) = 1

C1_Witness ==
    /\ Finished
    /\ args.done /\ args.stash /\ ~args.abort /\ args.commit = None
    /\ ret = 1
    /\ shelf # <<>>

\* C2: in Start-Edit with shelving, every stash_staged call is preceded by a
\* stash list call (the cleanup) of the same invocation.
C2_CleanupBeforeShelve ==
    \A i \in 1..Len(calls) :
        calls[i].op = "stash_staged" =>
            \E j \in 1..(i - 1) : calls[j].op = "stash_id"

IsMarkerEntry(e) == e = MarkerEntry

MarkerCount(sh) == Cardinality({i \in 1..Len(sh) : IsMarkerEntry(sh[i])})

\* C3: after any sequence of invocations the stash stack holds at most one
\* entry whose message is the marker.
C3_AtMostOneMarker == pc = "idle" => MarkerCount(shelf) <= 1

\* C4: Start-Edit with shelving and nothing staged: has_staged is the only
\* Git call, one error is printed and the exit code is 1.
C4_NoStagedStops ==
    (EditWithStash /\ Got("has_staged", FAILED)) =>
        /\ Ops(calls) = <<"has_staged">>
        /\ Errors = 1
        /\ editRet = 1
        /\ Finished => ret = 1

C4_Witness ==
    /\ Finished
    /\ EditWithStash
    /\ Got("has_staged", FAILED)
    /\ ret = 1

\* C5: Start-Edit with shelving whose stash_staged fails: exit code 1, one
\* error, and rebase_edit, pop_stash, amend_commit, continue_rebase never
\* called.
C5_ShelveFailedStops ==
    (EditWithStash /\ Got("stash_staged", FAILED)) =>
        /\ Errors = 1
        /\ editRet = 1
        /\ Finished => ret = 1
        /\ ~Issued("rebase_edit")
        /\ ~Issued("pop_stash")
        /\ ~Issued("amend_commit")
        /\ ~Issued("continue_rebase")

C5_Witness ==
    /\ Finished
    /\ EditWithStash
    /\ Got("stash_staged", FAILED)
    /\ ret = 1

\* C6: when rebase_edit fails, Start-Edit returns 1 and never calls
\* amend_commit or continue_rebase; pop_stash is called exactly once with
\* shelving (which had succeeded) and never without.
C6_RebaseFailed ==
    (Finished /\ Got("rebase_edit", FAILED)) =>
        /\ ret = 1
        /\ editRet = 1
        /\ ~Issued("amend_commit")
        /\ ~Issued("continue_rebase")
        /\ args.stash => NCalls("pop_stash") = 1 /\ Got("stash_staged", SUCCESS)
        /\ ~args.stash => NCalls("pop_stash") = 0

C6_Witness ==
    /\ Finished
    /\ Got("rebase_edit", FAILED)
    /\ args.stash
    /\ NCalls("pop_stash") = 1

\* C7: Start-Edit with shelving whose rebase_edit fails prints one error if
\* the recovery pop succeeds and three if the recovery pop fails too.
C7_RecoveryMessages ==
    (Finished /\ EditWithStash /\ Got("rebase_edit", FAILED)) =>
        /\ Got("pop_stash", SUCCESS) => Errors = 1
        /\ Got("pop_stash", FAILED) => Errors = 3
        /\ Got("pop_stash", SUCCESS) \/ Got("pop_stash", FAILED)

C7_Witness ==
    /\ Finished
    /\ EditWithStash
    /\ Got("rebase_edit", FAILED)
    /\ Got("pop_stash", FAILED)
    /\ Errors = 3

\* C8: in Start-Edit with shelving amend_commit is called only after a
\* pop_stash that did not fail; when rebase_edit succeeds and pop_stash fails
\* the flow returns 1 with three errors and calls neither amend_commit nor
\* continue_rebase.
C8_RestoreBeforeFinalize ==
    EditWithStash =>
        /\ \A i \in 1..Len(calls) :
               calls[i].op = "amend_commit" =>
                   \E j \in 1..(i - 1) :
                       calls[j].op = "pop_stash" /\ calls[j].res # FAILED
        /\ (Got("rebase_edit", SUCCESS) /\ Got("pop_stash", FAILED)) =>
               /\ Errors = 3
               /\ editRet = 1
               /\ Finished => ret = 1
               /\ ~Issued("amend_commit")
               /\ ~Issued("continue_rebase")

C8_Witness ==
    /\ Finished
    /\ EditWithStash
    /\ Got("rebase_edit", SUCCESS)
    /\ Got("pop_stash", FAILED)
    /\ ret = 1

AllShelvingStepsSucceeded ==
    /\ Got("has_staged", SUCCESS)
    /\ Got("stash_staged", SUCCESS)
    /\ Got("rebase_edit", SUCCESS)
    /\ Got("pop_stash", SUCCESS)

\* C9: Start-Edit with shelving whose has_staged, stash_staged, rebase_edit
\* and pop_stash all succeed enters _done_flow exactly once and returns what
\* _done_flow returned.
C9_ChainsIntoFinalize ==
    (Finished /\ EditWithStash /\ AllShelvingStepsSucceeded) =>
        /\ CountOf(flows, "done_flow") = 1
        /\ doneRet \in {0, 1}
        /\ editRet = doneRet
        /\ ret = doneRet

C9_Witness ==
    /\ Finished
    /\ EditWithStash
    /\ AllShelvingStepsSucceeded
    /\ doneRet = 1
    /\ ret = 1

\* C10: in Finalize, when amend_commit fails the flow returns 1 with one
\* error and neither continue_rebase nor the cleanup (stash list, stash
\* drop) is called.
C10_AmendFailedStops ==
    Got("amend_commit", FAILED) =>
        /\ doneRet = 1
        /\ Errors = 1
        /\ ~Issued("continue_rebase")
        /\ ~Issued("stash_id")
        /\ ~Issued("drop_stash")
        /\ Finished => ret = 1

C10_Witness ==
    /\ Finished
    /\ args.done
    /\ Got("amend_commit", FAILED)
    /\ ret = 1


\* C11: in Finalize, when amend_commit succeeds and continue_rebase fails
\* the flow returns 1 with three errors and the cleanup is not run (no stash
\* list, no stash drop).
C11_ContinueFailedStops ==
    (Got("amend_commit", SUCCESS) /\ Got("continue_rebase", FAILED)) =>
        /\ doneRet = 1
        /\ Errors = 3
        /\ ~Issued("stash_id")
        /\ ~Issued("drop_stash")
        /\ Finished => ret = 1

C11_Witness ==
    /\ Finished
    /\ args.done
    /\ Got("amend_commit", SUCCESS)
    /\ Got("continue_rebase", FAILED)
    /\ Errors = 3
    /\ ret = 1

LastIsInfo == out # <<>> /\ out[Len(out)].lvl = "info"

\* C12: in Finalize, when amend_commit and continue_rebase both succeed the
\* calls come in the order amend_commit, continue_rebase, stash list; the
\* cleanup runs exactly once; one info message is printed after it and the
\* flow returns 0.
C12_FinalizeSuccessOrder ==
    (Finished /\ Got("amend_commit", SUCCESS) /\ Got("continue_rebase", SUCCESS)) =>
        /\ NCalls("stash_id") = 1
        /\ \E i, j, k \in 1..Len(calls) :
               /\ i < j /\ j < k
               /\ calls[i].op = "amend_commit"
               /\ calls[j].op = "continue_rebase"
               /\ calls[k].op = "stash_id"
        /\ Infos = 1
        /\ LastIsInfo
        /\ doneRet = 0
        /\ ret = 0

C12_Witness ==
    /\ Finished
    /\ args.done
    /\ Got("amend_commit", SUCCESS)
    /\ Got("continue_rebase", SUCCESS)
    /\ Issued("drop_stash")
    /\ ret = 0

\* C13: in Cancel, when abort_rebase fails the flow returns 1 with one error
\* and does nothing more: abort_rebase is the only Git call and the stash is
\* as the invocation found it.
C13_AbortFailedStops ==
    Got("abort_rebase", FAILED) =>
        /\ Ops(calls) = <<"abort_rebase">>
        /\ Errors = 1
        /\ abortRet = 1
        /\ pc # "idle" => shelf = entry[1]
        /\ Finished => ret = 1

C13_Witness ==
    /\ Finished
    /\ Got("abort_rebase", FAILED)
    /\ MarkerCount(shelf) > 0
    /\ ret = 1

\* C14: in Cancel, when abort_rebase succeeds the cleanup runs exactly once,
\* right after the abort; one info message is printed and the flow returns 0.
C14_AbortSuccessCleansUp ==
    (Finished /\ Got("abort_rebase", SUCCESS)) =>
        /\ NCalls("abort_rebase") = 1
        /\ NCalls("stash_id") = 1
        /\ calls[1].op = "abort_rebase"
        /\ calls[2].op = "stash_id"
        /\ Infos = 1
        /\ LastIsInfo
        /\ abortRet = 0
        /\ ret = 0

C14_Witness ==
    /\ Finished
    /\ Got("abort_rebase", SUCCESS)
    /\ Issued("drop_stash")
    /\ ret = 0


\* Position of the first entry of the stack whose message is the marker.
FirstMarker(sh) ==
    CHOOSE i \in 1..Len(sh) :
        /\ IsMarkerEntry(sh[i])
        /\ \A j \in 1..(i - 1) : ~IsMarkerEntry(sh[j])

\* C15: the cleanup issues stash drop at most once, on the ref of the first
\* entry whose message is the marker, wherever that entry is in the stack,
\* and issues no drop in dry-run or when no entry has the marker as message.
C15_DropsFirstMarker ==
    /\ NCalls("drop_stash") <= 1
    /\ NCalls("drop_stash") <= NCalls("stash_id")
    /\ pc = "cleanup_drop" =>
           /\ ~args.dry_run
           /\ MarkerCount(shelf) > 0
           /\ stashId = <<StashRefs[FirstMarker(shelf)]>>

IsUserEntry(e) == ~IsMarkerEntry(e)

UserEntriesOf(sh) == SelectSeq(sh, IsUserEntry)

\* C16: no step of a flow removes a stash entry whose message is not the
\* marker: the entries pushed by others stay as they are, in their order.
C16_UserEntriesKept ==
    [][pc # "idle" => UserEntriesOf(shelf') = UserEntriesOf(shelf)]_vars


\* Number of stash drop calls made by the n-th cleanup of the run.
DropsOfCleanup(n) ==
    Cardinality({i \in 1..Len(calls) :
        /\ calls[i].op = "drop_stash"
        /\ Cardinality({j \in 1..i : calls[j].op = "stash_id"}) = n})

TwoCleanupsDone == pc = "exit" /\ NCalls("stash_id") = 2

\* C17 as claimed: for every stash stack, the second of two cleanups in a
\* row issues no stash drop.
C17_SecondCleanupNoDrop ==
    TwoCleanupsDone => DropsOfCleanup(2) = 0

MatchingLines(sh) ==
    Cardinality({i \in 1..Len(sh) : LineHasMarker(StashListOut(sh)[i])})

FirstCleanupDropOk ==
    \A i \in 1..Len(calls) :
        ( /\ calls[i].op = "drop_stash"
          /\ Cardinality({j \in 1..i : calls[j].op = "stash_id"}) = 1 ) =>
            calls[i].res # FAILED

\* C17 amended: when at most one listed line contains the marker text and
\* the drop of the first cleanup (if issued) did not fail, the second of two
\* cleanups in a row issues no stash drop.
C17_IdempotentWhenRemoved ==
    (TwoCleanupsDone /\ MatchingLines(entry[1]) <= 1 /\ FirstCleanupDropOk) =>
        /\ DropsOfCleanup(2) = 0
        /\ MatchingLines(shelf) = 0 \/ args.dry_run

C17_Witness ==
    /\ TwoCleanupsDone
    /\ ~args.dry_run
    /\ Len(entry[1]) = MaxShelf
    /\ IsMarkerEntry(entry[1][2])
    /\ MatchingLines(entry[1]) = 1
    /\ DropsOfCleanup(1) = 1
    /\ FirstCleanupDropOk
    /\ DropsOfCleanup(2) = 0


\* C18: the cleanup never fails the calling flow: when stash drop fails one
\* warning is printed and the flow returns 0 with its info message, as it
\* does when the drop succeeds.
C18_DropFailureIsWarning ==
    (Finished /\ Issued("drop_stash")) =>
        /\ ret = 0
        /\ Infos = 1
        /\ LastIsInfo
        /\ Got("drop_stash", FAILED) => Errors = 1
        /\ Got("drop_stash", SUCCESS) => Errors = 0
        /\ Got("drop_stash", FAILED) \/ Got("drop_stash", SUCCESS)

C18_Witness ==
    /\ Finished
    /\ Got("drop_stash", FAILED)
    /\ Errors = 1
    /\ ret = 0

Accepted(a) == MainUsageError(a) = NoError

HasMatchingLine(sh) == MatchingLines(sh) > 0

\* The Git calls of a live invocation in which every call succeeds, on the
\* stash stack sh.
LiveOps(a, sh) ==
    LET cleanup == IF HasMatchingLine(sh)
                   THEN <<"stash_id", "drop_stash">> ELSE <<"stash_id">>
        done == <<"amend_commit", "continue_rebase">> \o cleanup
    IN  IF a.abort THEN <<"abort_rebase">> \o cleanup
        ELSE IF a.done THEN done
        ELSE IF a.stash
             THEN <<"has_staged", "stash_staged", "rebase_edit", "pop_stash">> \o done
             ELSE <<"rebase_edit">>

\* The same, without the stash drop of the cleanup.
LiveOpsNoDrop(a) == LiveOps(a, <<>>)

\* Lines "# git ..." printed by the invocation.
DryRunLines ==
    Cardinality({i \in 1..Len(out) : out[i].lvl = "debug" /\ out[i].msg[1] = "# "})

\* Every call of the live invocation can succeed on the repository e.
LiveCanSucceed(a, e) ==
    IF a.abort THEN 0 \in AbortExit(e[2])
    ELSE IF a.done THEN 0 \in ContinueExit(e[2])
    ELSE /\ 0 \in RebaseExit(a.commit, e[2])
         /\ a.stash => 1 \in HasStagedExit(e[3]) /\ 0 \in StashPushExit(e[1])

LiveSuccessIssuesLiveOps ==
    (~args.dry_run /\ Accepted(args) /\ Finished /\ ret = 0) =>
        Ops(calls) = LiveOps(args, entry[1])

\* C19 as claimed: a dry-run invocation leaves the repository (rebase state,
\* stash stack) as it found it, logs every command the successful live run
\* issues, and returns 0.
C19_DryRunLogsAllLiveCommands ==
    /\ LiveSuccessIssuesLiveOps
    /\ (args.dry_run /\ Accepted(args)) =>
           /\ pc # "idle" => repo = entry
           /\ Finished =>
                  /\ ret = 0
                  /\ DryRunLines = Len(calls)
                  /\ LiveCanSucceed(args, entry) =>
                         \A k \in 1..Len(LiveOps(args, entry[1])) :
                             Issued(LiveOps(args, entry[1])[k])

\* C19 amended: a dry-run invocation leaves the repository as it found it,
\* returns 0, and logs every command the successful live run issues except
\* the stash drop of the cleanup, which dry-run never reaches.
C19_DryRunLogsAllButDrop ==
    /\ LiveSuccessIssuesLiveOps
    /\ (args.dry_run /\ Accepted(args)) =>
           /\ pc # "idle" => repo = entry
           /\ ~Issued("drop_stash")
           /\ Finished =>
                  /\ ret = 0
                  /\ DryRunLines = Len(calls)
                  /\ Ops(calls) = LiveOpsNoDrop(args)

C19_Witness ==
    /\ Finished
    /\ args.dry_run
    /\ EditWithStash
    /\ HasMatchingLine(shelf)
    /\ Len(calls) = 7
    /\ ret = 0

ExitCodeOps ==
    {"rebase_edit", "continue_rebase", "abort_rebase", "has_staged",
     "stash_staged", "pop_stash", "drop_stash", "amend_commit"}

\* C20: in dry-run every exit-code-shaped Git method returns DRY_RUN, a value
\* that is neither SUCCESS nor FAILED nor the absent result.
C20_DryRunOutcome ==
    /\ DRY_RUN \notin {SUCCESS, FAILED, None}
    /\ args.dry_run =>
           \A i \in 1..Len(calls) :
               calls[i].op \in ExitCodeOps => calls[i].res = DRY_RUN


\* The exit code each exit-code-shaped Git method expects.
ExpectedCode(name) == IF name = "has_staged" THEN 1 ELSE 0

\* C21: in live mode every exit-code-shaped Git method returns SUCCESS
\* exactly when the exit code of its command is the expected one and FAILED
\* otherwise; the expected code is 0, except for has_staged, where exit 1
\* gives SUCCESS and exit 0 gives FAILED.
C21_ResultFromExitCode ==
    ~args.dry_run =>
        \A i \in 1..Len(calls) :
            calls[i].op \in ExitCodeOps =>
                /\ calls[i].res \in {SUCCESS, FAILED}
                /\ calls[i].res = SUCCESS <=> calls[i].code = ExpectedCode(calls[i].op)

C21_Witness ==
    /\ Finished
    /\ ~args.dry_run
    /\ \E i \in 1..Len(calls) :
           calls[i].op = "has_staged" /\ calls[i].code = 1 /\ calls[i].res = SUCCESS
    /\ \E i \in 1..Len(calls) :
           calls[i].op = "rebase_edit" /\ calls[i].code = 128 /\ calls[i].res = FAILED
    /\ \E i \in 1..Len(calls) :
           calls[i].op = "pop_stash" /\ calls[i].code = 0 /\ calls[i].res = SUCCESS


\* The Git methods on whose result a flow decides how to go on.
FlowDecidingOps ==
    {"has_staged", "stash_staged", "rebase_edit", "pop_stash", "amend_commit",
     "continue_rebase", "abort_rebase"}

SomeDecidingFailed ==
    \E i \in 1..Len(calls) :
        calls[i].op \in FlowDecidingOps /\ calls[i].res = FAILED

\* C22: in live mode an invocation returns 0 only if none of has_staged,
\* stash_staged, rebase_edit, pop_stash, amend_commit, continue_rebase and
\* abort_rebase it called returned FAILED; it returns 1 whenever the options
\* are rejected or one of these calls returned FAILED; the return code is
\* always 0 or 1.
C22_ExitCode ==
    Finished =>
        /\ ret \in {0, 1}
        /\ ~args.dry_run =>
               /\ ret = 0 => ~SomeDecidingFailed
               /\ (~Accepted(args) \/ SomeDecidingFailed) => ret = 1

C22_Witness ==
    /\ Finished
    /\ ~args.dry_run
    /\ EditWithStash
    /\ Got("pop_stash", SUCCESS)
    /\ Got("amend_commit", SUCCESS)
    /\ Got("continue_rebase", FAILED)
    /\ ret = 1

\* The flow the options select.
SelectedFlow(a) ==
    IF a.abort THEN "abort_flow"
    ELSE IF a.done THEN "done_flow"
    ELSE "edit_flow"

\* The return value of the flow the options select.
SelectedRet(a) ==
    IF a.abort THEN abortRet
    ELSE IF a.done THEN doneRet
    ELSE editRet

\* The first Git method the selected flow calls.
FirstOp(a) ==
    IF a.abort THEN "abort_rebase"
    ELSE IF a.done THEN "amend_commit"
    ELSE IF a.stash THEN "has_staged"
    ELSE "rebase_edit"

\* C23: for every non-conflicting option combination main enters exactly one
\* flow exactly once (_abort_flow with --abort, _done_flow with --done,
\* _edit_flow otherwise, which shelves exactly when --stash is given), and
\* the return code of main is the return value of that flow.
C23_OneFlowDispatched ==
    (Finished /\ ~Conflicting(args)) =>
        /\ flows # <<>>
        /\ flows[1] = SelectedFlow(args)
        /\ \/ Len(flows) = 1
           \/ EditWithStash /\ flows = <<"edit_flow", "done_flow">>
        /\ calls # <<>>
        /\ calls[1].op = FirstOp(args)
        /\ Issued("has_staged") <=> EditWithStash
        /\ ret = SelectedRet(args)
        /\ ret # NoRet

C23_Witness ==
    /\ Finished
    /\ args.done /\ ~args.abort /\ ~args.stash /\ args.commit = None
    /\ flows = <<"done_flow">>
    /\ ret = 0
    /\ doneRet = 0

\* C24: within one invocation none of rebase_edit, continue_rebase,
\* abort_rebase, has_staged, stash_staged, pop_stash and amend_commit is
\* called more than once, whatever the calls return.
C24_NoRetry ==
    \A name \in FlowDecidingOps : NCalls(name) <= 1

C24_Witness ==
    /\ Finished
    /\ EditWithStash
    /\ ~args.dry_run
    /\ Got("rebase_edit", FAILED)
    /\ Got("pop_stash", FAILED)
    /\ NCalls("pop_stash") = 1
    /\ NCalls("rebase_edit") = 1

EditNoStash == ~args.abort /\ ~args.done /\ ~args.stash

\* C25: Start-Edit without shelving calls exactly one Git method,
\* rebase_edit on the given commit, and no stash method, so the stash stack
\* is unchanged; it returns 0 with one info message if rebase_edit succeeds
\* and 1 with one error message if it fails.
C25_EditNoStash ==
    (EditNoStash /\ pc # "idle") =>
        /\ shelf = entry[1]
        /\ \A i \in 1..Len(calls) : calls[i].op = "rebase_edit"
        /\ Finished =>
               /\ Len(calls) = 1
               /\ calls[1].arg = <<args.commit>>
               /\ Got("rebase_edit", SUCCESS) =>
                      ret = 0 /\ Infos = 1 /\ Errors = 0
               /\ Got("rebase_edit", FAILED) =>
                      ret = 1 /\ Errors = 1 /\ Infos = 0

C25_Witness ==
    /\ Finished
    /\ EditNoStash
    /\ ~args.dry_run
    /\ args.commit # None
    /\ shelf # <<>>
    /\ Got("rebase_edit", SUCCESS)
    /\ ret = 0


\* This invocation is a live Cancel or Finalize that directly follows a
\* Start-Edit with shelving whose pop_stash failed.
AfterFailedRestore ==
    /\ leftover
    /\ pc # "idle"
    /\ args.abort \/ args.done
    /\ Accepted(args)
    /\ ~args.dry_run

\* C26 as claimed: the marker entry that Start-Edit shelved and failed to
\* restore is not removed by a following Cancel or Finalize.
C26_UnrestoredEntryKept ==
    AfterFailedRestore => shelf = entry[1]

\* C26: after a live Start-Edit with shelving whose pop_stash failed, the
\* marker entry it pushed is on top of the stash; a directly following live
\* Cancel or Finalize keeps it when it returns 1 or when its stash drop
\* fails, and drops exactly it when it returns 0 and the drop succeeds.
C26_UnrestoredEntryDroppedOnSuccess ==
    AfterFailedRestore =>
        /\ entry[1] # <<>>
        /\ entry[1][1] = MarkerEntry
        /\ Finished =>
               /\ ret = 1 => shelf = entry[1] /\ ~Issued("drop_stash")
               /\ ret = 0 =>
                      /\ NCalls("drop_stash") = 1
                      /\ Got("drop_stash", FAILED) => shelf = entry[1]
                      /\ Got("drop_stash", SUCCESS) => shelf = Tail(entry[1])

C26_Witness ==
    /\ AfterFailedRestore
    /\ Finished
    /\ args.abort
    /\ ret = 0
    /\ Got("drop_stash", SUCCESS)
    /\ shelf = Tail(entry[1])

\* C27: whenever pop_stash is about to be called in a live Start-Edit with
\* shelving (after a failed or a started rebase), the top of the stash is
\* the marker entry this invocation's stash_staged pushed, on the stash as
\* the invocation found it.
C27_PopsOwnEntry ==
    (pc \in {"edit_recover", "edit_pop"} /\ ~args.dry_run) =>
        /\ Got("stash_staged", SUCCESS)
        /\ shelf # <<>>
        /\ shelf[1] = MarkerEntry
        /\ shelf = <<MarkerEntry>> \o entry[1]

C27_Witness ==
    /\ pc = "edit_recover"
    /\ ~args.dry_run
    /\ entry[1] # <<>>
    /\ entry[1][1] \in UserEntries
    /\ shelf = <<MarkerEntry>> \o entry[1]

\* C28: after a live Finalize or Cancel that returns 0 and whose stash drop,
\* if called, succeeded, no entry whose message is the marker is left on the
\* stash, whatever the earlier invocations did.
C28_NoMarkerAfterCleanup ==
    (/\ Finished
     /\ ~args.dry_run
     /\ args.abort \/ args.done
     /\ ret = 0
     /\ ~Got("drop_stash", FAILED)) =>
        MarkerCount(shelf) = 0

\* C29: Start-Edit with shelving on a stash without marker entry, whose
\* rebase_edit fails and whose recovery pop succeeds, leaves the stash as it
\* found it.
C29_RecoveredShelfUnchanged ==
    (/\ Finished
     /\ EditWithStash
     /\ ~args.dry_run
     /\ MarkerCount(entry[1]) = 0
     /\ Got("rebase_edit", FAILED)
     /\ Got("pop_stash", SUCCESS)) =>
        shelf = entry[1]

C29_Witness ==
    /\ Finished
    /\ EditWithStash
    /\ ~args.dry_run
    /\ entry[1] # <<>>
    /\ MarkerCount(entry[1]) = 0
    /\ Got("stash_staged", SUCCESS)
    /\ Got("rebase_edit", FAILED)
    /\ Got("pop_stash", SUCCESS)
    /\ shelf = entry[1]

\* C30: a live Finalize run while no rebase is in progress returns 1 and
\* leaves the commit at HEAD as it was (or does not call amend_commit).
C30_FinalizeNeedsSession ==
    (/\ Finished
     /\ args.done
     /\ Accepted(args)
     /\ ~args.dry_run
     /\ ~entry[2]) =>
        /\ ret = 1
        /\ ~Issued("amend_commit") \/ head = entry[4]


\* A printed debug line that shows a git command.
IsCmdLine(l) == l.lvl = "debug" /\ l.msg[1] \in {"# ", "> "}

CmdLinesOf(o) == SelectSeq(o, IsCmdLine)

\* The git command of a call, after "git".
CommandOf(c) ==
    CASE c.op = "stash_id" -> <<"stash", "list">>
      [] c.op = "drop_stash" -> <<"stash", "drop">> \o c.arg
      [] c.op = "amend_commit" -> <<"commit", "--amend", "--no-edit">>
      [] c.op = "continue_rebase" -> <<"rebase", "--continue">>
      [] c.op = "abort_rebase" -> <<"rebase", "--abort">>
      [] c.op = "has_staged" -> <<"diff", "--cached", "--quiet">>
      [] c.op = "stash_staged" -> <<"stash", "push", "--keep-index", "-m", Marker>>
      [] c.op = "rebase_edit" ->
             <<"-c", "sequence.editor", "rebase", "-i", c.arg[1], "^">>
      [] c.op = "pop_stash" -> <<"stash", "pop">>

\* The command line of a call as the mode of the invocation prefixes it.
CmdLineOf(c) ==
    <<IF args.dry_run THEN "# " ELSE "> ", "git">> \o CommandOf(c)

\* The k-th printed command line is the line of the k-th call.
CmdLinesMatchCalls ==
    /\ Len(CmdLinesOf(out)) = Len(calls)
    /\ \A k \in 1..Len(calls) : CmdLinesOf(out)[k].msg = CmdLineOf(calls[k])

====
